---- MODULE Spec2Model ----
(***************************************************************************)
(* Behavior-plan builder: the function-assessment scoring engine, the      *)
(* function determination, the results step that persists the accepted     *)
(* function, and the plan-section revision workflow (generate, AI-revise,  *)
(* manual edit, keep-as-is, reset-to-original, restore) over the record    *)
(* store (plans row + plan_section_revisions table).                       *)
(*                                                                         *)
(* Scores are kept in hundredths (2.33 is 233).  Every score the scoring   *)
(* engine can produce is k/100 with k an integer, and for all of them the  *)
(* IEEE-754 comparisons of the source agree with the comparisons of the    *)
(* hundredths (checked exhaustively for counts 1..6 and weights 1..3).     *)
(***************************************************************************)
EXTENDS Integers, Sequences, FiniteSets, TLC

\* ------------------------------------------------------------------ bounds
\* questions 1..MaxQuestion are the ones the user has got to; the others are
\* still unanswered (scoring) or were answered "n_a" (results step)
MaxQuestion == 5
\* the determination is exercised on every score a category of at most
\* MaxItems answered items can have
MaxItems == 5

\* section operations (AI-revise, manual edit, restore, reset, keep-as-is) started
MaxOps == 3
\* plan generations (the first one and rebuilds) started
MaxGenerations == 2
\* the user clicks only on the first MaxClick editable sections; the others
\* are reached by the automatic advance
MaxClick == 2

\* revision ids a restore request may name
MaxRevisionId == 3

\* debounced writes that may be under way at once
MaxInflight == 2

\* route handlers running at the same time
MaxCalls == 2

SeqToSet(sq) == {sq[i] : i \in 1..Len(sq)}

\* ------------------------------------------------------- rubric catalogue
Null == -1
Unanswered == "unanswered"

BehaviorFunction == {"escape", "attention", "access", "sensory"}

\* Object.keys order of FunctionScores / functionQuestions
functionOrder == <<"escape", "attention", "access", "sensory">>

ResponseValue == {"strongly_agree", "agree", "disagree", "n_a"}

NumQuestions == 21

\* responseOptions[].score, null for "n_a"
OptionScore(v) ==
  CASE v = "strongly_agree" -> 3
    [] v = "agree" -> 2
    [] v = "disagree" -> 1
    [] OTHER -> Null

functionQuestions ==
  [escape |-> <<1, 2, 7, 11, 16>>,
   attention |-> <<3, 4, 5, 6, 14>>,
   access |-> <<8, 9, 12, 13, 17>>,
   sensory |-> <<10, 15, 18, 19, 20, 21>>]

\* ---------------------------------------------------------- scoring engine
\* the inner loop over questionNumbers: <<total, count>> after the first n
RECURSIVE Accumulate(_, _, _)
Accumulate(resp, qs, n) ==
  IF n = 0 THEN <<0, 0>>
  ELSE LET acc == Accumulate(resp, qs, n - 1)
           response == resp[qs[n]]
       IN IF response # Unanswered /\ response # "n_a" /\ OptionScore(response) # Null
          THEN <<acc[1] + OptionScore(response), acc[2] + 1>>
          ELSE acc

\* Math.round((total / count) * 100) / 100, in hundredths
RoundFloor(total, count) == (100 * total) \div count

Round2(total, count) == (200 * total + count) \div (2 * count)

CategoryScoreZero(resp, func) ==
  LET acc == Accumulate(resp, functionQuestions[func], Len(functionQuestions[func]))
  IN IF acc[2] > 0 THEN Round2(acc[1], acc[2]) ELSE 0

CategoryScore(resp, func) ==
  LET acc == Accumulate(resp, functionQuestions[func], Len(functionQuestions[func]))
  IN IF acc[2] > 0 THEN Round2(acc[1], acc[2]) ELSE Null

calculateFunctionScores(resp) == [func \in BehaviorFunction |-> CategoryScore(resp, func)]

\* ---------------------------------------------------- function determination
THRESHOLD == 30
MIN_SCORE_FOR_TIE == 200

\* validScores: the non-null entries in Object.keys order
RECURSIVE ValidScores(_, _)
ValidScores(sc, n) ==
  IF n = 0 THEN <<>>
  ELSE LET rest == ValidScores(sc, n - 1)
           func == functionOrder[n]
       IN IF sc[func] # Null THEN Append(rest, [func |-> func, score |-> sc[func]]) ELSE rest

\* insert v behind every entry whose score is >= v.score (stable, descending)
RECURSIVE InsertDesc(_, _)
InsertDesc(sorted, v) ==
  IF sorted = <<>> THEN <<v>>
  ELSE IF Head(sorted).score >= v.score
       THEN <<Head(sorted)>> \o InsertDesc(Tail(sorted), v)
       ELSE <<v>> \o sorted

\* validScores.sort((a, b) => b.score - a.score); Array.prototype.sort is stable
RECURSIVE SortDesc(_)
SortDesc(vs) ==
  IF vs = <<>> THEN <<>>
  ELSE InsertDesc(SortDesc(SubSeq(vs, 1, Len(vs) - 1)), vs[Len(vs)])

IsCloseStrict(v, highest) ==
  v.score > highest.score - THRESHOLD /\ v.score >= MIN_SCORE_FOR_TIE

IsCloseNoFloor(v, highest) ==
  v.score >= highest.score - THRESHOLD

\* the filter predicate of closeFunctions
IsClose(v, highest) ==
  v.score >= highest.score - THRESHOLD /\ v.score >= MIN_SCORE_FOR_TIE

\* validScores.filter(...) over the sorted list
RECURSIVE FilterClose(_, _)
FilterClose(vs, highest) ==
  IF vs = <<>> THEN <<>>
  ELSE IF IsClose(Head(vs), highest)
       THEN <<Head(vs)>> \o FilterClose(Tail(vs), highest)
       ELSE FilterClose(Tail(vs), highest)

MapFunc(vs) == [i \in 1..Len(vs) |-> vs[i].func]

\* a determination; hasTied is FALSE when the optional tiedFunctions field is
\* absent from the returned object (tiedFunctions is then unused)
Determination(primary, hasTied, tied, sc) ==
  [primary |-> primary, hasTied |-> hasTied, tiedFunctions |-> tied, allScores |-> sc]

NoEvidenceFallsThrough(sc) == Determination(functionOrder[1], FALSE, <<>>, sc)

\* the early return for validScores.length === 0
NoEvidence(sc) == Determination("multiple", TRUE, <<>>, sc)

determinePrimaryFunction(sc) ==
  LET validScores == ValidScores(sc, Len(functionOrder))
  IN IF Len(validScores) = 0
     THEN NoEvidence(sc)
     ELSE LET sorted == SortDesc(validScores)
              highest == sorted[1]
              closeFunctions == FilterClose(sorted, highest)
          IN IF Len(closeFunctions) > 1
             THEN Determination("multiple", TRUE, MapFunc(closeFunctions), sc)
             ELSE Determination(highest.func, FALSE, <<>>, sc)

\* ------------------------------------------------------------------ state
VARIABLES
  responses,        \* plan.assessment_responses: question number -> response
  scores,           \* FunctionScores computed from the responses
  determination,    \* result of determinePrimaryFunction
  pcScore,          \* "input" -> "scored" -> "determined" (pure-function runs)
  results,          \* StepResults component state
  assessment,       \* plans row: function_scores, calculated_function, determined_function
  plan,             \* plans row: status, generated_*, current_*, generation tracking
  revisions,        \* plan_section_revisions table, in insertion order (id = position)
  client,           \* StepGenerate component state
  req,              \* the request in flight and the locals of its route handler
  audit,            \* bookkeeping of what the operations have done so far
  entry,            \* StepAssessment: its timer and writes, and the stored responses
  calls             \* route handlers running at the same time, each with its locals

scoreVars == <<responses, scores, determination, pcScore, entry, calls>>
resultsVars == <<results, assessment>>
flowVars == <<revisions, client, req, audit>>
vars == <<responses, scores, determination, pcScore, results, assessment,
          plan, revisions, client, req, audit, entry, calls>>

NoResponses == [q \in 1..NumQuestions |-> Unanswered]
NoScores == [func \in BehaviorFunction |-> Null]
NoDetermination == Determination("multiple", FALSE, <<>>, NoScores)

\* useState initial values of StepResults
ResultsInitial ==
  [pc |-> "unmounted", hasScores |-> FALSE, scores |-> NoScores,
   calculatedFunction |-> "null", tiedFunctions |-> <<>>,
   overrideFunction |-> "null", agreedWithCalculation |-> "null", error |-> FALSE]

\* a plan row before the results step has been completed
AssessmentInitial ==
  [hasScores |-> FALSE, function_scores |-> NoScores, calculated_function |-> "null",
   determined_function |-> "null"]

ScoreIdle ==
  /\ responses = NoResponses /\ scores = NoScores
  /\ determination = NoDetermination /\ pcScore = "idle"

\* no timer, or the response set a pending timer will save
NoTimer == [set |-> FALSE, value |-> NoResponses]
Pending(value) == [set |-> TRUE, value |-> value]

\* the assessment step before it is opened
EntryIdle ==
  [pc |-> "idle", stored |-> NoResponses, timer |-> NoTimer, inflight |-> {},
   write |-> NoResponses, continued |-> NoTimer]

\* no route handler runs beside the one the page waits for
NoCalls == <<>>

ResultsIdle ==
  /\ results = ResultsInitial /\ assessment = AssessmentInitial
  /\ entry = EntryIdle /\ calls = NoCalls

\* ------------------------------------------------ plan sections and the store
Sections ==
  {"function_summary", "replacement_behavior", "prevention_strategies",
   "reinforcement_plan", "response_to_behavior"}

\* sections.filter((s) => s.editable), in canonical order
editableSections ==
  <<"replacement_behavior", "prevention_strategies", "reinforcement_plan", "response_to_behavior">>

EditableSections == SeqToSet(editableSections)

NoContent == "null"
NoSection == "null"

\* what the generation oracle, the revision oracle and the user can produce
OracleDrafts == {"g1", "g2"}
OracleRevisions == {"r1"}
ManualTexts == {"m1"}
FeedbackTexts == {"f1"}

UserFeedback(text) == [text |-> text, version |-> 0]
ManualFeedback == [text |-> "Manual edit", version |-> 0]
RestoreFeedback(n) == [text |-> "Restored from version", version |-> n]

\* a plans row as the generation step finds it
PlanInitial(status) ==
  [status |-> status,
   generated |-> [s \in Sections |-> NoContent],
   current |-> [s \in Sections |-> NoContent],
   generation_version |-> 1,
   sections_reviewed |-> {},
   revision_counts |-> [s \in EditableSections |-> 0]]

\* useState initial values of StepGenerate; planGenerated is the generated_*
\* part of the plan prop
\* coherenceIssues === null, and a coherence result as its coherent flags
NoIssues == [present |-> FALSE, coherent |-> [s \in EditableSections |-> TRUE]]
CoherenceResult(flags) == [present |-> TRUE, coherent |-> flags]

\* a coherence check in the background: the request, the oracle's output, the
\* number of oracle calls made, and the response
CheckIdle ==
  [pc |-> "none", revisedSection |-> NoSection, calls |-> 0,
   output |-> NoIssues.coherent, status |-> 0, hasIssues |-> FALSE,
   coherenceCheck |-> NoIssues]

ClientInitial ==
  [mounted |-> FALSE,
   planGenerated |-> [s \in Sections |-> NoContent],
   hasContent |-> FALSE,
   selectedSection |-> NoSection,
   sectionsReviewed |-> {},
   generationError |-> FALSE,
   coherenceIssues |-> NoIssues,
   showCoherenceWarning |-> FALSE,
   check |-> CheckIdle]

\* the plan of the session, and the plan id of no stored plan
ThePlan == "p1"
OtherPlan == "p2"

\* a request in flight: the body fields ("null" and 0 stand for a missing or
\* empty field), the route's locals, and the response status (0: none yet)
ReqIdle ==
  [op |-> "none", pc |-> "idle", planId |-> "null", section |-> NoSection,
   content |-> NoContent, feedback |-> UserFeedback("null"),
   isManualEdit |-> FALSE, revisionId |-> 0, status |-> 0, gv |-> 0,
   counts |-> [s \in EditableSections |-> 0], latest |-> 0, changed |-> FALSE]

AuditInitial ==
  [unrecorded |-> [s \in EditableSections |-> 0],
   opsDone |-> [s \in EditableSections |-> 0],
   opsStarted |-> 0,
   generations |-> 0,
   generated |-> FALSE]

FlowIdle ==
  /\ revisions = <<>> /\ client = ClientInitial /\ req = ReqIdle /\ audit = AuditInitial

\* ------------------------------------------------- scoring as pure functions
\* every response set in which only questions 1..MaxQuestion may be answered
PartialResponses ==
  {[q \in 1..NumQuestions |-> IF q <= MaxQuestion THEN g[q] ELSE Unanswered] :
     g \in [1..MaxQuestion -> ResponseValue \cup {Unanswered}]}

\* every score a category with at most MaxItems applicable items can have
ScoreValues == {Round2(t, c) : t \in 1..(3 * MaxItems), c \in 1..MaxItems} \cap 100..300

InitScore ==
  /\ responses \in PartialResponses
  /\ scores = NoScores /\ determination = NoDetermination /\ pcScore = "input"
  /\ ResultsIdle
  /\ plan = PlanInitial("in_progress") /\ FlowIdle

InitDetermine ==
  /\ responses = NoResponses
  /\ scores \in [BehaviorFunction -> ScoreValues \cup {Null}]
  /\ determination = NoDetermination /\ pcScore = "scored"
  /\ ResultsIdle
  /\ plan = PlanInitial("in_progress") /\ FlowIdle

Calculate ==
  /\ pcScore = "input"
  /\ scores' = calculateFunctionScores(responses)
  /\ pcScore' = "scored"
  /\ UNCHANGED <<responses, determination, entry, calls, resultsVars, plan, flowVars>>

Determine ==
  /\ pcScore = "scored"
  /\ determination' = determinePrimaryFunction(scores)
  /\ pcScore' = "determined"
  /\ UNCHANGED <<responses, scores, entry, calls, resultsVars, plan, flowVars>>

NextScore == Calculate \/ Determine

NextDetermine == Determine

SpecScore == InitScore /\ [][NextScore]_vars

SpecDetermine == InitDetermine /\ [][NextDetermine]_vars

\* --------------------------------------------- scoring of stored responses
\* a value outside the enumeration, as untyped stored JSON may hold
UnknownValue == "sometimes"

\* response sets read from storage: questions 1..MaxQuestion hold any value
RawResponses ==
  {[q \in 1..NumQuestions |-> IF q <= MaxQuestion THEN g[q] ELSE Unanswered] :
     g \in [1..MaxQuestion -> ResponseValue \cup {Unanswered, UnknownValue}]}

InitRawScore ==
  /\ responses \in RawResponses
  /\ scores = NoScores /\ determination = NoDetermination /\ pcScore = "input"
  /\ ResultsIdle
  /\ plan = PlanInitial("in_progress") /\ FlowIdle

NextRawScore == Calculate

SpecRawScore == InitRawScore /\ [][NextRawScore]_vars

\* -------------------------------------------------------- the results step
\* every complete response set: questions 1..MaxQuestion answered freely,
\* the remaining ones answered "n_a"
CompleteResponses ==
  {[q \in 1..NumQuestions |-> IF q <= MaxQuestion THEN g[q] ELSE "n_a"] :
     g \in [1..MaxQuestion -> ResponseValue]}

InitResults ==
  /\ responses \in CompleteResponses
  /\ scores = NoScores /\ determination = NoDetermination /\ pcScore = "idle"
  /\ ResultsIdle
  /\ plan = PlanInitial("in_progress") /\ FlowIdle

\* the mount effect: score the stored responses and keep the determination
ResultsMount ==
  /\ results.pc = "unmounted"
  /\ LET calculatedScores == calculateFunctionScores(responses)
          d == determinePrimaryFunction(calculatedScores)
     IN results' = [results EXCEPT
                      !.pc = "shown",
                      !.hasScores = TRUE,
                      !.scores = d.allScores,
                      !.calculatedFunction = d.primary,
                      !.tiedFunctions = IF d.hasTied THEN d.tiedFunctions ELSE @]
  /\ UNCHANGED <<scoreVars, assessment, plan, flowVars>>

\* "Yes, this matches": setAgreedWithCalculation(true); setOverrideFunction(null)
Agree ==
  /\ results.pc = "shown"
  /\ results' = [results EXCEPT !.agreedWithCalculation = "true", !.overrideFunction = "null"]
  /\ UNCHANGED <<scoreVars, assessment, plan, flowVars>>

Disagree ==
  /\ results.pc = "shown"
  /\ results' = [results EXCEPT !.agreedWithCalculation = "false"]
  /\ UNCHANGED <<scoreVars, assessment, plan, flowVars>>

\* the override selector is rendered only after "No"
SetOverride(func) ==
  /\ results.pc = "shown"
  /\ results.agreedWithCalculation = "false"
  /\ results' = [results EXCEPT !.overrideFunction = func]
  /\ UNCHANGED <<scoreVars, assessment, plan, flowVars>>

FinalFunctionIgnoresOverride(r) ==
  IF r.calculatedFunction = "multiple"
  THEN IF Len(r.tiedFunctions) > 0 THEN r.tiedFunctions[1] ELSE "undefined"
  ELSE r.calculatedFunction

\* overrideFunction || (calculatedFunction === "multiple" ? tiedFunctions[0] : calculatedFunction)
FinalFunction(r) ==
  IF r.overrideFunction # "null" THEN r.overrideFunction
  ELSE IF r.calculatedFunction = "multiple"
       THEN IF Len(r.tiedFunctions) > 0 THEN r.tiedFunctions[1] ELSE "undefined"
       ELSE r.calculatedFunction

\* handleContinue; an undefined value is dropped from the JSON body of the
\* update, which leaves that column as it was
ResultsContinue(ok) ==
  /\ results.pc = "shown"
  /\ results.hasScores
  /\ IF ok
     THEN /\ assessment' =
               [hasScores |-> TRUE,
                function_scores |-> results.scores,
                calculated_function |-> results.calculatedFunction,
                determined_function |->
                  IF FinalFunction(results) = "undefined"
                  THEN assessment.determined_function
                  ELSE FinalFunction(results)]
          /\ plan' = [plan EXCEPT !.status = "assessment_complete"]
          /\ results' = [results EXCEPT !.pc = "done", !.error = FALSE]
     ELSE /\ results' = [results EXCEPT !.error = TRUE]
          /\ UNCHANGED <<assessment, plan>>
  /\ UNCHANGED <<scoreVars, flowVars>>

NextResults ==
  \/ ResultsMount
  \/ Agree
  \/ Disagree
  \/ \E func \in BehaviorFunction : SetOverride(func)
  \/ \E ok \in BOOLEAN : ResultsContinue(ok)

SpecResults == InitResults /\ [][NextResults]_vars

\* ------------------------------------------------------ record-store queries
RevisionRecord(id, sectionName, content, number, gv, feedback, isManualEdit) ==
  [id |-> id, section_name |-> sectionName, content |-> content,
   revision_number |-> number, generation_version |-> gv,
   feedback_given |-> feedback, is_manual_edit |-> isManualEdit]

MaxOf(nums) == IF nums = {} THEN 0 ELSE CHOOSE m \in nums : \A n \in nums : n <= m

LatestRevisionNumberAnySection(tbl, sectionName, gv) ==
  MaxOf({tbl[i].revision_number :
           i \in {j \in 1..Len(tbl) : tbl[j].generation_version = gv}})

\* select revision_number where section_name and generation_version match,
\* order by revision_number desc limit 1; 0 stands for "no row"
LatestRevisionNumber(tbl, sectionName, gv) ==
  MaxOf({tbl[i].revision_number :
           i \in {j \in 1..Len(tbl) : /\ tbl[j].section_name = sectionName
                                      /\ tbl[j].generation_version = gv}})

\* latestRevision ? latestRevision.revision_number + 1 : 1
NextRevisionNumber(latest) == IF latest # 0 THEN latest + 1 ELSE 1

InsertRevisionInPlace(tbl, rec) ==
  IF tbl = <<>> THEN <<rec>> ELSE [tbl EXCEPT ![Len(tbl)] = rec]

\* insert into plan_section_revisions
InsertRevision(tbl, rec) == Append(tbl, rec)

\* order by generation_version desc, revision_number desc
Newer(a, b) ==
  \/ a.generation_version > b.generation_version
  \/ /\ a.generation_version = b.generation_version
     /\ a.revision_number > b.revision_number

RECURSIVE InsertNewestFirst(_, _)
InsertNewestFirst(sorted, r) ==
  IF sorted = <<>> THEN <<r>>
  ELSE IF Newer(r, Head(sorted))
       THEN <<r>> \o sorted
       ELSE <<Head(sorted)>> \o InsertNewestFirst(Tail(sorted), r)

\* GET /api/plans/revisions: the section's revisions, newest first
RECURSIVE GetRevisions(_, _)
GetRevisions(tbl, sectionName) ==
  IF tbl = <<>> THEN <<>>
  ELSE LET rest == GetRevisions(SubSeq(tbl, 1, Len(tbl) - 1), sectionName)
           last == tbl[Len(tbl)]
       IN IF last.section_name = sectionName THEN InsertNewestFirst(rest, last) ELSE rest

IncrementCountTwice(counts, s) == [counts EXCEPT ![s] = @ + 2]

\* revisionCounts[sectionName] = (revisionCounts[sectionName] || 0) + 1
IncrementCount(counts, s) == [counts EXCEPT ![s] = @ + 1]

\* ------------------------------------------------------ client-side helpers
MarkReviewedNever(list, s) == list

\* markSectionReviewed: the new client list (a duplicate-free array, kept
\* as the set of its entries)
MarkReviewed(list, s) == IF s \in list THEN list ELSE list \cup {s}

ReviewedStoreOnly(stored, list, s) == {s}

\* markSectionReviewed: the stored list after the update-sections-reviewed
\* request, which is sent only for a section not yet in the client list
ReviewedStore(stored, list, s) ==
  IF s \notin list THEN list \cup {s} ELSE stored

\* advanceToNextSection
AdvanceSection(selected) ==
  LET currentIndex == IF selected \in EditableSections
                      THEN CHOOSE i \in 1..Len(editableSections) : editableSections[i] = selected
                      ELSE 0
  IN IF currentIndex < Len(editableSections)
     THEN editableSections[currentIndex + 1]
     ELSE NoSection

Idle == req.op = "none"

Editing ==
  /\ Idle /\ client.mounted /\ client.hasContent
  /\ client.selectedSection # NoSection

\* bookkeeping: a write of current_<s> that alters it awaits its revision record
NoteWrite(a, s, changed) ==
  [a EXCEPT !.unrecorded[s] = IF changed THEN @ + 1 ELSE @]

NoteInsert(a, s, changed) ==
  [a EXCEPT !.unrecorded[s] = IF changed THEN @ - 1 ELSE @]

NoteDone(a, s) == [a EXCEPT !.opsDone[s] = @ + 1]

NoteStart(a) == [a EXCEPT !.opsStarted = @ + 1]

\* ------------------------------------------------- session and generation
\* the mount effect of StepGenerate: load the stored content, or generate
Mount ==
  /\ Idle /\ ~client.mounted
  /\ IF plan.current["function_summary"] # NoContent
     THEN /\ client' = [ClientInitial EXCEPT
                          !.mounted = TRUE,
                          !.planGenerated = plan.generated,
                          !.hasContent = TRUE,
                          !.sectionsReviewed = plan.sections_reviewed]
          /\ UNCHANGED <<req, audit>>
     ELSE /\ audit.generations < MaxGenerations
          /\ client' = [ClientInitial EXCEPT !.mounted = TRUE, !.planGenerated = plan.generated]
          /\ req' = [ReqIdle EXCEPT !.op = "generate", !.pc = "oracle"]
          /\ audit' = [audit EXCEPT !.generations = @ + 1]
  /\ UNCHANGED <<scoreVars, resultsVars, plan, revisions>>

\* the user leaves the step; the next visit gets a fresh plan prop
Unmount ==
  /\ Idle /\ client.mounted
  /\ client' = ClientInitial
  /\ UNCHANGED <<scoreVars, resultsVars, plan, revisions, req, audit>>

\* the "Rebuild Plan" button
Rebuild ==
  /\ Idle /\ client.mounted /\ client.hasContent
  /\ audit.generations < MaxGenerations
  /\ client' = [client EXCEPT !.hasContent = FALSE, !.sectionsReviewed = {},
                              !.selectedSection = NoSection]
  /\ req' = [ReqIdle EXCEPT !.op = "generate", !.pc = "oracle"]
  /\ audit' = [audit EXCEPT !.generations = @ + 1]
  /\ UNCHANGED <<scoreVars, resultsVars, plan, revisions>>

\* the "Try Again" button of the generation error screen
TryAgain ==
  /\ Idle /\ client.mounted /\ client.generationError
  /\ audit.generations < MaxGenerations
  /\ client' = [client EXCEPT !.generationError = FALSE]
  /\ req' = [ReqIdle EXCEPT !.op = "generate", !.pc = "oracle"]
  /\ audit' = [audit EXCEPT !.generations = @ + 1]
  /\ UNCHANGED <<scoreVars, resultsVars, plan, revisions>>

\* generate route: the oracle call
GenerateOracle(ok, draft) ==
  /\ req.op = "generate" /\ req.pc = "oracle"
  /\ IF ok
     THEN /\ req' = [req EXCEPT !.pc = "update", !.content = draft]
          /\ UNCHANGED client
     ELSE /\ req' = ReqIdle
          /\ client' = [client EXCEPT !.generationError = TRUE]
  /\ UNCHANGED <<scoreVars, resultsVars, plan, revisions, audit>>

\* the plans row after the generate route's update
GeneratedPlan(p, draft) ==
  [p EXCEPT !.generated = [s \in Sections |-> draft],
            !.current = [s \in Sections |-> draft],
            !.status = "generating",
            !.sections_reviewed = {}]

\* generate route: the update of the plans row, and the client's handling
GenerateUpdate(ok) ==
  /\ req.op = "generate" /\ req.pc = "update"
  /\ IF ok
     THEN /\ plan' = GeneratedPlan(plan, req.content)
          /\ client' = [client EXCEPT !.hasContent = TRUE,
                                      !.selectedSection = editableSections[1]]
          /\ audit' = [audit EXCEPT !.generated = TRUE]
     ELSE /\ client' = [client EXCEPT !.generationError = TRUE]
          /\ UNCHANGED <<plan, audit>>
  /\ req' = ReqIdle
  /\ UNCHANGED <<scoreVars, resultsVars, revisions>>

\* handleSectionClick, on one of the first MaxClick editable sections
SelectSection(s) ==
  /\ Idle /\ client.mounted /\ client.hasContent
  /\ \E i \in 1..MaxClick : i <= Len(editableSections) /\ editableSections[i] = s
  /\ client.selectedSection # s
  /\ client' = [client EXCEPT !.selectedSection = s]
  /\ UNCHANGED <<scoreVars, resultsVars, plan, revisions, req, audit>>

\* an error response of a route: the client shows it and changes nothing else
Fail ==
  /\ req' = ReqIdle
  /\ UNCHANGED client

\* --------------------------------------------------- steps shared by routes
\* update plans set current_<section> = content (with the counts when given)
WriteCurrent(p, s, content) == [p EXCEPT !.current[s] = content]

UpdateStep(ok, withCounts) ==
  IF ok
  THEN LET s == req.section
           changed == plan.current[s] # req.content
       IN /\ plan' = IF withCounts
                     THEN [WriteCurrent(plan, s, req.content) EXCEPT
                             !.revision_counts = IncrementCount(req.counts, s)]
                     ELSE WriteCurrent(plan, s, req.content)
          /\ req' = [req EXCEPT !.pc = "select", !.changed = changed]
          /\ audit' = NoteWrite(audit, s, changed)
          /\ UNCHANGED client
  ELSE /\ Fail
       /\ UNCHANGED <<plan, audit>>

SelectStep(gv) ==
  req' = [req EXCEPT !.pc = "insert", !.gv = gv,
                     !.latest = LatestRevisionNumber(revisions, req.section, gv)]

\* the table after the route's insert, whose error is not looked at
InsertStep(ok, isManualEdit) ==
  IF ok
  THEN InsertRevision(revisions,
         RevisionRecord(Len(revisions) + 1, req.section, req.content,
                        NextRevisionNumber(req.latest), req.gv, req.feedback, isManualEdit))
  ELSE revisions

\* ------------------------------------------------------------- AI-revise
\* handleRevise up to the request, and the route up to the oracle call
StartRevise(text) ==
  /\ Editing
  /\ audit.opsStarted < MaxOps
  /\ req' = [ReqIdle EXCEPT !.op = "revise", !.pc = "oracle",
                            !.planId = ThePlan,
                            !.section = client.selectedSection,
                            !.feedback = UserFeedback(text),
                            !.gv = plan.generation_version,
                            !.counts = plan.revision_counts]
  /\ audit' = NoteStart(audit)
  /\ UNCHANGED <<scoreVars, resultsVars, plan, revisions, client>>

ReviseOracle(ok, content) ==
  /\ req.op = "revise" /\ req.pc = "oracle"
  /\ IF ok
     THEN /\ req' = [req EXCEPT !.pc = "update", !.content = content]
          /\ UNCHANGED client
     ELSE Fail
  /\ UNCHANGED <<scoreVars, resultsVars, plan, revisions, audit>>

ReviseUpdate(ok) ==
  /\ req.op = "revise" /\ req.pc = "update"
  /\ UpdateStep(ok, TRUE)
  /\ UNCHANGED <<scoreVars, resultsVars, revisions>>

ReviseSelect ==
  /\ req.op = "revise" /\ req.pc = "select"
  /\ SelectStep(req.gv)
  /\ UNCHANGED <<scoreVars, resultsVars, plan, revisions, client, audit>>

\* the insert, the success response, and the rest of handleRevise
ReviseInsert(ok) ==
  /\ req.op = "revise" /\ req.pc = "insert"
  /\ revisions' = InsertStep(ok, FALSE)
  /\ audit' = NoteDone(IF ok THEN NoteInsert(audit, req.section, req.changed) ELSE audit,
                       req.section)
  /\ client' = [client EXCEPT
                  !.sectionsReviewed = MarkReviewed(@, req.section),
                  !.selectedSection = AdvanceSection(req.section)]
  /\ plan' = [plan EXCEPT !.sections_reviewed =
                ReviewedStore(@, client.sectionsReviewed, req.section)]
  /\ req' = ReqIdle
  /\ UNCHANGED <<scoreVars, resultsVars>>

\* ------------------------------------------------------------ manual edit
StartManualEdit(content) ==
  /\ Editing
  /\ audit.opsStarted < MaxOps
  /\ req' = [ReqIdle EXCEPT !.op = "manual", !.pc = "update",
                            !.planId = ThePlan, !.isManualEdit = TRUE,
                            !.section = client.selectedSection,
                            !.content = content,
                            !.feedback = ManualFeedback,
                            !.gv = plan.generation_version,
                            !.counts = plan.revision_counts]
  /\ audit' = NoteStart(audit)
  /\ UNCHANGED <<scoreVars, resultsVars, plan, revisions, client>>

ManualUpdate(ok) ==
  /\ req.op = "manual" /\ req.pc = "update"
  /\ UpdateStep(ok, FALSE)
  /\ UNCHANGED <<scoreVars, resultsVars, revisions>>

ManualSelect ==
  /\ req.op = "manual" /\ req.pc = "select"
  /\ SelectStep(req.gv)
  /\ UNCHANGED <<scoreVars, resultsVars, plan, revisions, client, audit>>

ManualInsert(ok) ==
  /\ req.op = "manual" /\ req.pc = "insert"
  /\ revisions' = InsertStep(ok, TRUE)
  /\ audit' = IF ok THEN NoteInsert(audit, req.section, req.changed) ELSE audit
  /\ req' = [req EXCEPT !.pc = "counts"]
  /\ UNCHANGED <<scoreVars, resultsVars, plan, client>>

\* the update of revision_counts, the response, and the rest of handleManualEditSave
ManualCounts(ok) ==
  /\ req.op = "manual" /\ req.pc = "counts"
  /\ plan' = [plan EXCEPT
                !.revision_counts = IF ok THEN IncrementCount(req.counts, req.section) ELSE @,
                !.sections_reviewed =
                   ReviewedStore(@, client.sectionsReviewed, req.section)]
  /\ client' = [client EXCEPT !.sectionsReviewed = MarkReviewed(@, req.section)]
  /\ audit' = NoteDone(audit, req.section)
  /\ req' = ReqIdle
  /\ UNCHANGED <<scoreVars, resultsVars, revisions>>

\* ---------------------------------------------------------------- restore
\* handleRestoreRevision on an entry of the loaded history, and the route's
\* fetch of that revision
StartRestore(revisionId) ==
  /\ Editing
  /\ audit.opsStarted < MaxOps
  /\ revisionId \in 1..Len(revisions)
  /\ revisions[revisionId].section_name = client.selectedSection
  /\ LET revision == revisions[revisionId]
     IN req' = [ReqIdle EXCEPT !.op = "restore", !.pc = "update",
                               !.planId = ThePlan, !.revisionId = revisionId,
                               !.section = revision.section_name,
                               !.content = revision.content,
                               !.feedback = RestoreFeedback(revision.revision_number)]
  /\ audit' = NoteStart(audit)
  /\ UNCHANGED <<scoreVars, resultsVars, plan, revisions, client>>

RestoreUpdate(ok) ==
  /\ req.op = "restore" /\ req.pc = "update"
  /\ UpdateStep(ok, FALSE)
  /\ UNCHANGED <<scoreVars, resultsVars, revisions>>

\* plan?.generation_version || 1, then the latest revision number
RestoreSelect ==
  /\ req.op = "restore" /\ req.pc = "select"
  /\ SelectStep(IF plan.generation_version = 0 THEN 1 ELSE plan.generation_version)
  /\ UNCHANGED <<scoreVars, resultsVars, plan, revisions, client, audit>>

RestoreInsert(ok) ==
  /\ req.op = "restore" /\ req.pc = "insert"
  /\ revisions' = InsertStep(ok, FALSE)
  /\ audit' = NoteDone(IF ok THEN NoteInsert(audit, req.section, req.changed) ELSE audit,
                       req.section)
  /\ req' = ReqIdle
  /\ UNCHANGED <<scoreVars, resultsVars, plan, client>>

\* ------------------------------------------------------ reset-to-original
\* handleResetToOriginal: nothing happens when the plan prop has no original
StartReset ==
  /\ Editing
  /\ audit.opsStarted < MaxOps
  /\ client.planGenerated[client.selectedSection] # NoContent
  /\ req' = [ReqIdle EXCEPT !.op = "reset", !.pc = "update",
                            !.planId = ThePlan,
                            !.section = client.selectedSection,
                            !.content = client.planGenerated[client.selectedSection]]
  /\ audit' = NoteStart(audit)
  /\ UNCHANGED <<scoreVars, resultsVars, plan, revisions, client>>

\* update-section route
ResetUpdate(ok) ==
  /\ req.op = "reset" /\ req.pc = "update"
  /\ IF ok
     THEN /\ plan' = WriteCurrent(plan, req.section, req.content)
          /\ audit' = NoteDone(NoteWrite(audit, req.section,
                                         plan.current[req.section] # req.content),
                               req.section)
     ELSE UNCHANGED <<plan, audit>>
  /\ req' = ReqIdle
  /\ UNCHANGED <<scoreVars, resultsVars, revisions, client>>

\* ----------------------------------------------- keep-as-is and finalize
KeepAsIs ==
  /\ Editing
  /\ audit.opsStarted < MaxOps
  /\ audit' = NoteStart(audit)
  /\ client' = [client EXCEPT
                  !.sectionsReviewed = MarkReviewed(@, client.selectedSection),
                  !.selectedSection = AdvanceSection(client.selectedSection)]
  /\ plan' = [plan EXCEPT !.sections_reviewed =
                ReviewedStore(@, client.sectionsReviewed, client.selectedSection)]
  /\ UNCHANGED <<scoreVars, resultsVars, revisions, req>>

FinalizeUnlessWarned(ok) ==
  /\ Idle /\ client.mounted /\ client.hasContent
  /\ ~client.showCoherenceWarning
  /\ plan' = [plan EXCEPT !.status = IF ok THEN "complete" ELSE @]
  /\ UNCHANGED <<scoreVars, resultsVars, revisions, client, req, audit>>

\* handleFinalize and the finalize route
Finalize(ok) ==
  /\ Idle /\ client.mounted /\ client.hasContent
  /\ plan' = [plan EXCEPT !.status = IF ok THEN "complete" ELSE @]
  /\ UNCHANGED <<scoreVars, resultsVars, revisions, client, req, audit>>

\* ------------------------------------------------------- the specification
Init ==
  /\ ScoreIdle /\ ResultsIdle
  /\ plan = PlanInitial("assessment_complete")
  /\ FlowIdle

Next ==
  \/ Mount
  \/ Unmount
  \/ Rebuild
  \/ TryAgain
  \/ \E ok \in BOOLEAN, draft \in OracleDrafts : GenerateOracle(ok, draft)
  \/ \E ok \in BOOLEAN : GenerateUpdate(ok)
  \/ \E s \in EditableSections : SelectSection(s)
  \/ \E text \in FeedbackTexts : StartRevise(text)
  \/ \E ok \in BOOLEAN, content \in OracleRevisions : ReviseOracle(ok, content)
  \/ \E ok \in BOOLEAN : ReviseUpdate(ok)
  \/ ReviseSelect
  \/ \E ok \in BOOLEAN : ReviseInsert(ok)
  \/ \E content \in ManualTexts : StartManualEdit(content)
  \/ \E ok \in BOOLEAN : ManualUpdate(ok)
  \/ ManualSelect
  \/ \E ok \in BOOLEAN : ManualInsert(ok)
  \/ \E ok \in BOOLEAN : ManualCounts(ok)
  \/ \E revisionId \in 1..MaxOps : StartRestore(revisionId)
  \/ \E ok \in BOOLEAN : RestoreUpdate(ok)
  \/ RestoreSelect
  \/ \E ok \in BOOLEAN : RestoreInsert(ok)
  \/ StartReset
  \/ \E ok \in BOOLEAN : ResetUpdate(ok)
  \/ KeepAsIs
  \/ \E ok \in BOOLEAN : Finalize(ok)

Spec == Init /\ [][Next]_vars

\* ------------------------------------------------- the routes, request by request
\* the number of entries a stored prevention_strategies text parses to: what
\* the oracles return passed a schema of exactly 3, a hand-written text has as
\* many entries as blocks were typed
ManualLists == {"m2e", "m4e"}

StrategyCount(content) ==
  CASE content = NoContent -> 0
    [] content = "m2e" -> 2
    [] content = "m4e" -> 4
    [] OTHER -> 3

\* bodies a caller may post to revise-section and to revisions/restore
RequestPlanIds == {"null", ThePlan, OtherPlan}
RequestSections == Sections \cup {NoSection}
RequestContents == {NoContent} \cup ManualTexts \cup ManualLists
RequestFeedback == {"null"} \cup FeedbackTexts
RequestRevisionIds == 0..MaxRevisionId

ReviseRequests ==
  {[ReqIdle EXCEPT !.op = "post_revise", !.pc = "received", !.planId = p,
                   !.section = sec, !.content = c, !.feedback = UserFeedback(f),
                   !.isManualEdit = m] :
     p \in RequestPlanIds, sec \in RequestSections, c \in RequestContents,
     f \in RequestFeedback, m \in BOOLEAN}

RestoreRequests ==
  {[ReqIdle EXCEPT !.op = "post_restore", !.pc = "received", !.planId = p,
                   !.revisionId = r] :
     p \in RequestPlanIds, r \in RequestRevisionIds}

\* stores the session reaches: a generated plan; the same after a manual edit
\* of a section; the same after an AI-revise and then a manual edit
GeneratedStore ==
  [plan |-> GeneratedPlan(PlanInitial("assessment_complete"), "g1"),
   revisions |-> <<>>, done |-> [s \in EditableSections |-> 0]]

EditedStore(s) ==
  [plan |-> [WriteCurrent(GeneratedStore.plan, s, "m1") EXCEPT
               !.revision_counts = IncrementCount(@, s),
               !.sections_reviewed = {s}],
   revisions |-> <<RevisionRecord(1, s, "m1", 1, 1, ManualFeedback, TRUE)>>,
   done |-> [t \in EditableSections |-> IF t = s THEN 1 ELSE 0]]

RevisedEditedStore(s) ==
  [plan |-> [WriteCurrent(GeneratedStore.plan, s, "m1") EXCEPT
               !.revision_counts = IncrementCount(IncrementCount(@, s), s),
               !.sections_reviewed = {s}],
   revisions |-> <<RevisionRecord(1, s, "r1", 1, 1, UserFeedback("f1"), FALSE),
                   RevisionRecord(2, s, "m1", 2, 1, ManualFeedback, TRUE)>>,
   done |-> [t \in EditableSections |-> IF t = s THEN 2 ELSE 0]]

RouteStores ==
  {GeneratedStore} \cup {EditedStore(s) : s \in EditableSections}
                   \cup {RevisedEditedStore(s) : s \in EditableSections}

InitRoute ==
  /\ ScoreIdle /\ ResultsIdle
  /\ \E st \in RouteStores :
       /\ plan = st.plan
       /\ revisions = st.revisions
       /\ client = [ClientInitial EXCEPT
                      !.mounted = TRUE, !.hasContent = TRUE,
                      !.planGenerated = st.plan.generated,
                      !.selectedSection = editableSections[1],
                      !.sectionsReviewed = st.plan.sections_reviewed]
       /\ audit = [AuditInitial EXCEPT
                     !.generated = TRUE, !.generations = 1, !.opsDone = st.done,
                     !.opsStarted = Len(st.revisions)]
  /\ req \in ReviseRequests \cup RestoreRequests

\* a 4xx response: the request ends and nothing else happens
Reject(status) ==
  /\ req' = [req EXCEPT !.op = "none", !.pc = "idle", !.status = status]
  /\ UNCHANGED <<scoreVars, resultsVars, plan, revisions, client, audit>>

Proceed(op, pc, feedback) ==
  /\ req' = [req EXCEPT !.op = op, !.pc = pc, !.feedback = feedback,
                        !.gv = plan.generation_version,
                        !.counts = plan.revision_counts]
  /\ UNCHANGED <<scoreVars, resultsVars, plan, revisions, client, audit>>

MissingFeedbackNever(r) == FALSE

\* !userFeedback
MissingFeedback(r) == r.feedback.text = "null"

\* revise-section route, from the body to the branch taken
ReviseSectionReceive ==
  /\ req.op = "post_revise" /\ req.pc = "received"
  /\ IF req.planId = "null" \/ req.section = NoSection \/ req.content = NoContent
     THEN Reject(400)
     ELSE IF req.section \notin EditableSections
     THEN Reject(400)
     ELSE IF req.planId # ThePlan
     THEN Reject(404)
     ELSE IF req.isManualEdit
     THEN Proceed("manual", "update", ManualFeedback)
     ELSE IF MissingFeedback(req)
     THEN Reject(400)
     ELSE Proceed("revise", "oracle", req.feedback)

RevisionExistsAlways(planId, revisionId) == revisionId \in 1..Len(revisions)

\* select * from plan_section_revisions where id = revisionId and plan_id = planId
RevisionExists(planId, revisionId) ==
  revisionId \in 1..Len(revisions) /\ planId = ThePlan

\* restore route, from the body to the fetched revision
RestoreReceive ==
  /\ req.op = "post_restore" /\ req.pc = "received"
  /\ IF req.planId = "null" \/ req.revisionId = 0
     THEN Reject(400)
     ELSE IF ~RevisionExists(req.planId, req.revisionId)
     THEN Reject(404)
     ELSE LET revision == revisions[req.revisionId]
          IN /\ req' = [req EXCEPT !.op = "restore", !.pc = "update",
                                   !.section = revision.section_name,
                                   !.content = revision.content,
                                   !.feedback = RestoreFeedback(revision.revision_number)]
             /\ UNCHANGED <<scoreVars, resultsVars, plan, revisions, client, audit>>

NextRoute ==
  \/ ReviseSectionReceive
  \/ RestoreReceive
  \/ \E ok \in BOOLEAN, content \in OracleRevisions : ReviseOracle(ok, content)
  \/ \E ok \in BOOLEAN : ReviseUpdate(ok)
  \/ ReviseSelect
  \/ \E ok \in BOOLEAN : ReviseInsert(ok)
  \/ \E ok \in BOOLEAN : ManualUpdate(ok)
  \/ ManualSelect
  \/ \E ok \in BOOLEAN : ManualInsert(ok)
  \/ \E ok \in BOOLEAN : ManualCounts(ok)
  \/ \E ok \in BOOLEAN : RestoreUpdate(ok)
  \/ RestoreSelect
  \/ \E ok \in BOOLEAN : RestoreInsert(ok)

SpecRoute == InitRoute /\ [][NextRoute]_vars

\* ------------------------------------------------ routes run concurrently
\* AI-revise, manual-edit and restore calls on one section of a plan whose
\* section has one or two revisions, each past its validation (and its oracle call)
\* and about to update current_<section>
CallIds == 1..MaxCalls

CallKinds == {"revise", "manual", "restore"}

\* a handler's locals after its fetch of the plan (and of the revision to restore)
CallStart(kind, s, store) ==
  [kind |-> kind, pc |-> "update", section |-> s,
   content |-> CASE kind = "revise" -> "r1"
                 [] kind = "manual" -> "m1"
                 [] OTHER -> store.revisions[1].content,
   feedback |-> CASE kind = "revise" -> UserFeedback("f1")
                  [] kind = "manual" -> ManualFeedback
                  [] OTHER -> RestoreFeedback(store.revisions[1].revision_number),
   gv |-> store.plan.generation_version,
   counts |-> store.plan.revision_counts,
   latest |-> 0]

InitConcurrent ==
  /\ ScoreIdle
  /\ results = ResultsInitial /\ assessment = AssessmentInitial /\ entry = EntryIdle
  /\ req = ReqIdle
  /\ \E s \in EditableSections, once \in BOOLEAN, kinds \in [CallIds -> CallKinds] :
       LET st == IF once THEN EditedStore(s) ELSE RevisedEditedStore(s)
       IN /\ plan = st.plan
          /\ revisions = st.revisions
          /\ calls = [i \in CallIds |-> CallStart(kinds[i], s, st)]
          /\ client = [ClientInitial EXCEPT
                         !.mounted = TRUE, !.hasContent = TRUE,
                         !.planGenerated = st.plan.generated,
                         !.selectedSection = s,
                         !.sectionsReviewed = st.plan.sections_reviewed]
          /\ audit = [AuditInitial EXCEPT
                        !.generated = TRUE, !.generations = 1, !.opsDone = st.done,
                        !.opsStarted = Len(st.revisions)]

callsOnly == <<responses, scores, determination, pcScore, entry, resultsVars,
               client, req, audit>>

\* the handler's update of current_<section>; an error ends the call
CallUpdate(i, ok) ==
  /\ calls[i].pc = "update"
  /\ IF ok
     THEN /\ plan' = IF calls[i].kind = "revise"
                     THEN [WriteCurrent(plan, calls[i].section, calls[i].content) EXCEPT
                             !.revision_counts = IncrementCount(calls[i].counts,
                                                                calls[i].section)]
                     ELSE WriteCurrent(plan, calls[i].section, calls[i].content)
          /\ calls' = [calls EXCEPT ![i].pc = "select"]
     ELSE /\ calls' = [calls EXCEPT ![i].pc = "done"]
          /\ UNCHANGED plan
  /\ UNCHANGED <<revisions, callsOnly>>

\* the handler reads the latest revision number of the section
CallSelect(i) ==
  /\ calls[i].pc = "select"
  /\ calls' = [calls EXCEPT
                 ![i].pc = "insert",
                 ![i].latest = LatestRevisionNumber(revisions, calls[i].section, calls[i].gv)]
  /\ UNCHANGED <<plan, revisions, callsOnly>>

\* the handler inserts its revision; the insert's error is not looked at
CallInsert(i, ok) ==
  /\ calls[i].pc = "insert"
  /\ revisions' =
       IF ok
       THEN InsertRevision(revisions,
              RevisionRecord(Len(revisions) + 1, calls[i].section, calls[i].content,
                             NextRevisionNumber(calls[i].latest), calls[i].gv,
                             calls[i].feedback, calls[i].kind = "manual"))
       ELSE revisions
  /\ calls' = [calls EXCEPT ![i].pc = IF calls[i].kind = "manual" THEN "counts" ELSE "done"]
  /\ UNCHANGED <<plan, callsOnly>>

\* the manual-edit route's update of revision_counts
CallCounts(i, ok) ==
  /\ calls[i].pc = "counts"
  /\ plan' = [plan EXCEPT
                !.revision_counts =
                   IF ok THEN IncrementCount(calls[i].counts, calls[i].section) ELSE @]
  /\ calls' = [calls EXCEPT ![i].pc = "done"]
  /\ UNCHANGED <<revisions, callsOnly>>

NextConcurrent ==
  \/ \E i \in CallIds, ok \in BOOLEAN : CallUpdate(i, ok)
  \/ \E i \in CallIds : CallSelect(i)
  \/ \E i \in CallIds, ok \in BOOLEAN : CallInsert(i, ok)
  \/ \E i \in CallIds, ok \in BOOLEAN : CallCounts(i, ok)

SpecConcurrent == InitConcurrent /\ [][NextConcurrent]_vars

\* ---------------------------------------------------- the assessment step
\* the questions the user answers or changes in the session; the others were
\* answered and saved on an earlier visit
EditedQuestions == {1}

SavedProgress ==
  [q \in 1..NumQuestions |-> IF q \in EditedQuestions THEN Unanswered ELSE "agree"]

\* the response sets the session can hold once the questions are answered
EditedResponses ==
  {[q \in 1..NumQuestions |-> IF q \in EditedQuestions THEN g[q] ELSE "agree"] :
     g \in [EditedQuestions -> ResponseValue]}

\* the step opens on the responses of the plan prop
InitAssessment ==
  /\ responses = SavedProgress /\ scores = NoScores
  /\ determination = NoDetermination /\ pcScore = "idle"
  /\ results = ResultsInitial /\ assessment = AssessmentInitial
  /\ entry = [EntryIdle EXCEPT !.pc = "editing", !.stored = SavedProgress]
  /\ calls = NoCalls
  /\ plan = PlanInitial("in_progress") /\ FlowIdle

entryOnly == <<scores, determination, pcScore, calls, resultsVars, plan, flowVars>>

\* handleResponseChange, and the effect it triggers: the old timer is
\* cleared and a new one is set for the new response set
HandleResponseChange(questionNumber, value) ==
  /\ entry.pc = "editing"
  /\ responses' = [responses EXCEPT ![questionNumber] = value]
  /\ entry' = [entry EXCEPT !.timer = Pending(responses')]
  /\ UNCHANGED entryOnly

\* the timer fires after 500 ms: saveResponses sends its update
TimerFires ==
  /\ entry.pc \in {"editing", "continuing"}
  /\ entry.timer.set
  /\ Cardinality(entry.inflight) < MaxInflight
  /\ entry' = [entry EXCEPT !.timer = NoTimer, !.inflight = @ \cup {entry.timer.value}]
  /\ UNCHANGED <<responses, entryOnly>>

\* an update sent by saveResponses reaches the store
DebouncedWrite(value) ==
  /\ value \in entry.inflight
  /\ entry' = [entry EXCEPT !.inflight = @ \ {value}, !.stored = value]
  /\ UNCHANGED <<responses, entryOnly>>

\* responses[q.number.toString()] is set for every question
Complete(r) == \A q \in 1..NumQuestions : r[q] # Unanswered

\* handleContinue up to its update request
StartContinue ==
  /\ entry.pc = "editing"
  /\ Complete(responses)
  /\ entry' = [entry EXCEPT !.pc = "continuing", !.write = responses]
  /\ UNCHANGED <<responses, entryOnly>>

\* the update of handleContinue and its outcome: onContinue leaves the step,
\* which clears the timer; an error keeps the user on the step
ContinueWrite(ok) ==
  /\ entry.pc = "continuing"
  /\ entry' = IF ok
              THEN [entry EXCEPT !.pc = "left", !.stored = entry.write,
                                 !.timer = NoTimer, !.continued = Pending(entry.write)]
              ELSE [entry EXCEPT !.pc = "editing"]
  /\ UNCHANGED <<responses, entryOnly>>

\* the Back button: the step unmounts and the effect's cleanup clears the timer
Back ==
  /\ entry.pc = "editing"
  /\ entry' = [entry EXCEPT !.pc = "left", !.timer = NoTimer]
  /\ UNCHANGED <<responses, entryOnly>>

NextAssessment ==
  \/ \E q \in EditedQuestions, value \in ResponseValue : HandleResponseChange(q, value)
  \/ TimerFires
  \/ \E value \in EditedResponses : DebouncedWrite(value)
  \/ StartContinue
  \/ \E ok \in BOOLEAN : ContinueWrite(ok)
  \/ Back

SpecAssessment == InitAssessment /\ [][NextAssessment]_vars

\* ---------------------------------------------------- the coherence check
\* revisedSection.replace("current_", "")
StripCurrent(name) ==
  CASE name = "current_replacement_behavior" -> "replacement_behavior"
    [] name = "current_prevention_strategies" -> "prevention_strategies"
    [] name = "current_reinforcement_plan" -> "reinforcement_plan"
    [] name = "current_response_to_behavior" -> "response_to_behavior"
    [] OTHER -> name

RevisedSectionNames ==
  EditableSections \cup
    {"current_replacement_behavior", "current_prevention_strategies",
     "current_reinforcement_plan", "current_response_to_behavior"}

\* every object the oracle can return under coherenceSchema, as its flags
OracleCoherence == [EditableSections -> BOOLEAN]

KeepOracleFlags(output, revisedSection) == output

\* result[sectionKey] = { coherent: true } when sectionKey is a key of result
ForceRevisedCoherent(output, revisedSection) ==
  [s \in EditableSections |-> IF s = StripCurrent(revisedSection) THEN TRUE ELSE output[s]]

\* Object.entries(result).some(key !== sectionKey && !value.coherent)
HasIssues(result, revisedSection) ==
  \E s \in EditableSections : s # StripCurrent(revisedSection) /\ ~result[s]

\* the store after a successful AI-revise of a section of a generated plan
RevisedStore(s) ==
  [plan |-> [WriteCurrent(GeneratedStore.plan, s, "r1") EXCEPT
               !.revision_counts = IncrementCount(@, s),
               !.sections_reviewed = {s}],
   revisions |-> <<RevisionRecord(1, s, "r1", 1, 1, UserFeedback("f1"), FALSE)>>,
   done |-> [t \in EditableSections |-> IF t = s THEN 1 ELSE 0]]

\* what an earlier check may have left on the screen
EarlierIssues ==
  {NoIssues, CoherenceResult([s \in EditableSections |-> s # "response_to_behavior"])}

\* handleRevise or handleManualEditSave has just succeeded on a section and
\* called runCoherenceCheck for it
InitCoherence ==
  /\ ScoreIdle /\ ResultsIdle
  /\ req = ReqIdle
  /\ \E s \in EditableSections, byHand \in BOOLEAN, name \in RevisedSectionNames,
        earlier \in EarlierIssues :
       LET st == IF byHand THEN EditedStore(s) ELSE RevisedStore(s)
       IN /\ StripCurrent(name) = s
          /\ plan = st.plan
          /\ revisions = st.revisions
          /\ client = [ClientInitial EXCEPT
                         !.mounted = TRUE, !.hasContent = TRUE,
                         !.planGenerated = st.plan.generated,
                         !.selectedSection = IF byHand THEN s ELSE AdvanceSection(s),
                         !.sectionsReviewed = st.plan.sections_reviewed,
                         !.coherenceIssues = earlier,
                         !.showCoherenceWarning = earlier.present,
                         !.check = [CheckIdle EXCEPT !.pc = "sent", !.revisedSection = name]]
          /\ audit = [AuditInitial EXCEPT
                        !.generated = TRUE, !.generations = 1, !.opsDone = st.done,
                        !.opsStarted = 1]

CoherenceFailureRaises(c) ==
  [c EXCEPT !.pc = "answered", !.calls = @ + 1, !.status = 500,
            !.hasIssues = FALSE, !.coherenceCheck = NoIssues]

\* the catch block: success, hasIssues false, coherenceCheck null
CoherenceFailure(c) ==
  [c EXCEPT !.pc = "answered", !.calls = @ + 1, !.status = 200,
            !.hasIssues = FALSE, !.coherenceCheck = NoIssues]

\* coherence-check route: the oracle call and the response built from it; the
\* catch block answers for a failed call
CoherenceOracle(ok, output) ==
  /\ client.check.pc = "sent"
  /\ client' = [client EXCEPT !.check =
       IF ok
       THEN LET result == ForceRevisedCoherent(output, @.revisedSection)
            IN [@ EXCEPT !.pc = "answered", !.calls = @ + 1, !.output = output,
                         !.status = 200,
                         !.hasIssues = HasIssues(result, client.check.revisedSection),
                         !.coherenceCheck = CoherenceResult(result)]
       ELSE CoherenceFailure(@)]
  /\ UNCHANGED <<scoreVars, resultsVars, plan, revisions, req, audit>>

\* runCoherenceCheck: the response arrives
CoherenceReceive ==
  /\ client.check.pc = "answered"
  /\ client' = IF client.check.hasIssues /\ client.check.coherenceCheck.present
               THEN [client EXCEPT !.coherenceIssues = client.check.coherenceCheck,
                                   !.showCoherenceWarning = TRUE,
                                   !.check.pc = "done"]
               ELSE [client EXCEPT !.coherenceIssues = NoIssues,
                                   !.showCoherenceWarning = FALSE,
                                   !.check.pc = "done"]
  /\ UNCHANGED <<scoreVars, resultsVars, plan, revisions, req, audit>>

\* runCoherenceCheck: the request itself fails and the catch block is silent
CoherenceLost ==
  /\ client.check.pc = "sent"
  /\ client' = [client EXCEPT !.check.pc = "lost"]
  /\ UNCHANGED <<scoreVars, resultsVars, plan, revisions, req, audit>>

NextCoherence ==
  \/ \E ok \in BOOLEAN, output \in OracleCoherence : CoherenceOracle(ok, output)
  \/ CoherenceReceive
  \/ CoherenceLost
  \/ \E s \in EditableSections : SelectSection(s)
  \/ KeepAsIs
  \/ \E ok \in BOOLEAN : Finalize(ok)

SpecCoherence == InitCoherence /\ [][NextCoherence]_vars

\* ------------------------------------------------ claims: the determination
NonNull(sc) == {func \in BehaviorFunction : sc[func] # Null}

TopScore(sc) == CHOOSE m \in {sc[func] : func \in NonNull(sc)} : \A func \in NonNull(sc) : sc[func] <= m

\* categories within the closeness band of the top score and on the floor
Passing(sc) ==
  {func \in NonNull(sc) : sc[func] >= TopScore(sc) - THRESHOLD /\ sc[func] >= MIN_SCORE_FOR_TIE}

\* C1: when two or more categories are within 0.3 of the top score (boundary
\* included) and at least 2.0, the result is "multiple" and the tied list is
\* exactly those categories, each once.
Thm_C1 ==
  (pcScore = "determined" /\ NonNull(scores) # {} /\ Cardinality(Passing(scores)) >= 2)
    => /\ determination.primary = "multiple"
       /\ determination.hasTied
       /\ SeqToSet(determination.tiedFunctions) = Passing(scores)
       /\ Len(determination.tiedFunctions) = Cardinality(Passing(scores))

\* a tie declared with a contender exactly 0.3 below the top, and a third
\* category kept out by the floor
Wit_C1 ==
  /\ pcScore = "determined"
  /\ determination.primary = "multiple"
  /\ \E func \in Passing(scores) : scores[func] = TopScore(scores) - THRESHOLD
  /\ \E func \in NonNull(scores) : func \notin Passing(scores)

Thm_C3 ==
  pcScore = "determined"
    => ((determination.primary = "multiple" /\ determination.tiedFunctions = <<>>)
          <=> NonNull(scores) = {})

Wit_C3 ==
  /\ pcScore = "determined"
  /\ NonNull(scores) = {}
  /\ determination.primary = "multiple" /\ determination.hasTied
  /\ determination.tiedFunctions = <<>>

\* ------------------------------------------------ claims: the scoring engine
QuestionsOf(func) == SeqToSet(functionQuestions[func])

\* the answered-and-applicable items of a category
Applicable(resp, func) == {q \in QuestionsOf(func) : resp[q] \in ResponseValue \ {"n_a"}}

RECURSIVE SumWeights(_, _)
SumWeights(resp, qs) ==
  IF qs = {} THEN 0
  ELSE LET q == CHOOSE x \in qs : TRUE
       IN OptionScore(resp[q]) + SumWeights(resp, qs \ {q})

\* the response set with every "n_a" answer removed
StripNA(resp) == [q \in 1..NumQuestions |-> IF resp[q] = "n_a" THEN Unanswered ELSE resp[q]]

\* C4: a category whose items are all unanswered or "n_a" scores null, never
\* 0, and "n_a" items count for nothing: the scores are those of the response
\* set with the "n_a" answers removed.
Thm_C4 ==
  pcScore # "input"
    => /\ \A func \in BehaviorFunction :
            (\A q \in QuestionsOf(func) : responses[q] \in {Unanswered, "n_a"})
              => scores[func] = Null
       /\ scores = calculateFunctionScores(StripNA(responses))

\* one category is all "n_a"/unanswered with at least one "n_a", another has a score
Wit_C4 ==
  /\ pcScore = "scored"
  /\ \E func \in BehaviorFunction :
        /\ \A q \in QuestionsOf(func) : responses[q] \in {Unanswered, "n_a"}
        /\ \E q \in QuestionsOf(func) : responses[q] = "n_a"
        /\ scores[func] = Null
  /\ \E func \in BehaviorFunction :
        /\ \E q \in QuestionsOf(func) : responses[q] = "n_a"
        /\ scores[func] # Null

\* C5: with count >= 1 applicable items the score is sum/count rounded to
\* two decimals, half up: score <= 100*sum/count + 1/2 < score + 1.
Thm_C5 ==
  pcScore # "input"
    => \A func \in BehaviorFunction :
         LET items == Applicable(responses, func)
             count == Cardinality(items)
             total == SumWeights(responses, items)
         IN count >= 1
              => /\ scores[func] # Null
                 /\ 2 * scores[func] * count <= 200 * total + count
                 /\ 200 * total + count < 2 * (scores[func] + 1) * count

\* weights summing to 7 over 3 applicable items give 2.33
Wit_C5 ==
  /\ pcScore = "scored"
  /\ \E func \in BehaviorFunction :
        /\ Cardinality(Applicable(responses, func)) = 3
        /\ SumWeights(responses, Applicable(responses, func)) = 7
        /\ scores[func] = 233

\* ------------------------------------------------- claims: the results step
Algorithmic == determinePrimaryFunction(calculateFunctionScores(responses))

\* C6: after a successful Continue, determined_function is the override when
\* one is in force, else the algorithmic primary, or the first tied category
\* when the primary is "multiple"; calculated_function is the algorithmic
\* primary whatever the override.
Thm_C6 ==
  results.pc = "done"
    => /\ assessment.calculated_function = Algorithmic.primary
       /\ results.overrideFunction # "null"
            => assessment.determined_function = results.overrideFunction
       /\ (results.overrideFunction = "null" /\ Algorithmic.primary # "multiple")
            => assessment.determined_function = Algorithmic.primary
       /\ (results.overrideFunction = "null" /\ Algorithmic.primary = "multiple"
             /\ Algorithmic.tiedFunctions # <<>>)
            => assessment.determined_function = Algorithmic.tiedFunctions[1]

\* a tie overridden by a category other than the first tied one
Wit_C6 ==
  /\ results.pc = "done"
  /\ assessment.calculated_function = "multiple"
  /\ Algorithmic.tiedFunctions # <<>>
  /\ results.overrideFunction \in BehaviorFunction
  /\ results.overrideFunction # Algorithmic.tiedFunctions[1]
  /\ assessment.determined_function = results.overrideFunction

\* ------------------------------------------- claims: the revision workflow
\* C7: in no state has current_<kind> been changed by AI-revise, manual
\* edit, reset or restore without that operation's revision record existing.
Cex_C7 == \A s \in EditableSections : audit.unrecorded[s] = 0

IsPrefix(a, b) == Len(a) <= Len(b) /\ SubSeq(b, 1, Len(a)) = a

\* C8: the revision history is append-only: every step keeps every existing
\* record, unchanged and in place.
Thm_C8 == [][IsPrefix(revisions, revisions')]_vars

\* a plan rebuilt and operated on, whose history holds a restore record
Wit_C8 ==
  /\ Idle /\ client.hasContent
  /\ audit.generations >= 2
  /\ Len(revisions) >= 2
  /\ \E i \in 1..Len(revisions) : revisions[i].feedback_given = RestoreFeedback(1)

\* the records before position i of the same section and generation version
Earlier(i) ==
  {j \in 1..(i - 1) : /\ revisions[j].section_name = revisions[i].section_name
                        /\ revisions[j].generation_version = revisions[i].generation_version}

\* C9: every revision record carries 1 + the largest revision number recorded
\* before it for its section and generation version (1 if none), so the
\* numbers of a section within a generation version are 1, 2, 3, ...
Thm_C9 ==
  \A i \in 1..Len(revisions) :
    /\ revisions[i].revision_number = 1 + MaxOf({revisions[j].revision_number : j \in Earlier(i)})
    /\ revisions[i].revision_number = 1 + Cardinality(Earlier(i))

\* one section revised by the oracle, edited by hand and restored: 1, 2, 3,
\* next to a record of another section
Wit_C9 ==
  \E i, j, k \in 1..Len(revisions) :
    /\ i < j /\ j < k
    /\ revisions[i].section_name = revisions[j].section_name
    /\ revisions[j].section_name = revisions[k].section_name
    /\ revisions[i].revision_number = 1
    /\ revisions[j].revision_number = 2
    /\ revisions[k].revision_number = 3
    /\ \E m \in {i, j, k} : revisions[m].is_manual_edit
    /\ \E m \in {i, j, k} : revisions[m].feedback_given.version > 0

StrictlyNumbered(history) ==
  \A i, j \in 1..Len(history) :
    (i < j /\ history[i].generation_version = history[j].generation_version)
      => history[i].revision_number > history[j].revision_number

\* C10: after the initial generation and N completed restore/reset/revise
\* operations on a section, its history holds N + 1 records with strictly
\* increasing revision numbers within each generation version.
Cex_C10 ==
  (Idle /\ audit.generated)
    => \A s \in EditableSections :
         LET history == GetRevisions(revisions, s)
         IN /\ Len(history) = audit.opsDone[s] + 1
            /\ StrictlyNumbered(history)

\* --------------------------------------------- claims: the section operations
\* the record the route inserts last, if the table grew by one
Appended == revisions'[Len(revisions')]

AppendedOne == Len(revisions') = Len(revisions) + 1 /\ IsPrefix(revisions, revisions')

\* C11: an AI-revise whose steps all succeed replaces current_<kind> with the
\* oracle's content, appends one record with is_manual_edit false and the
\* submitted feedback, raises the section's revision counter by one over its
\* value before the call, and leaves the section in the reviewed list.
Thm_C11 ==
  [][ReviseInsert(TRUE) =>
       LET s == req.section
       IN /\ plan'.current[s] = req.content
          /\ req.content \in OracleRevisions
          /\ AppendedOne
          /\ Appended.section_name = s
          /\ Appended.content = req.content
          /\ Appended.is_manual_edit = FALSE
          /\ Appended.feedback_given = req.feedback
          /\ req.feedback.text \in FeedbackTexts
          /\ plan'.revision_counts = [req.counts EXCEPT ![s] = @ + 1]
          /\ s \in client'.sectionsReviewed]_vars

\* a section revised by the oracle: content, record, counter and review mark
Wit_C11 ==
  /\ Idle
  /\ \E s \in EditableSections :
       /\ plan.current[s] \in OracleRevisions
       /\ plan.revision_counts[s] = 1
       /\ s \in client.sectionsReviewed
       /\ \E i \in 1..Len(revisions) :
            /\ revisions[i].section_name = s
            /\ revisions[i].content = plan.current[s]
            /\ revisions[i].feedback_given.text \in FeedbackTexts
            /\ ~revisions[i].is_manual_edit

\* C14: a completed reset-to-original appends one record for the section whose
\* content is generated_<kind> and whose is_manual_edit is false.
Cex_C14 ==
  [][ResetUpdate(TRUE) =>
       /\ AppendedOne
       /\ Appended.section_name = req.section
       /\ Appended.content = plan'.generated[req.section]
       /\ Appended.is_manual_edit = FALSE]_vars

\* C15: right after a completed reset-to-original of a section, the stored
\* current_<kind> equals the stored generated_<kind>.
Cex_C15 ==
  [][ResetUpdate(TRUE) =>
       plan'.current[req.section] = plan'.generated[req.section]]_vars

\* C17: a regeneration of an already generated plan raises generation_version
\* by exactly one, and no other step changes it.
Cex_C17 ==
  [][IF GenerateUpdate(TRUE) /\ audit.generated
     THEN plan'.generation_version = plan.generation_version + 1
     ELSE plan'.generation_version = plan.generation_version]_vars

\* C18: once generated_<kind> is set, no step changes it while
\* generation_version keeps its value.
Cex_C18 ==
  [][\A s \in Sections :
       (plan.generated[s] # NoContent
          /\ plan'.generation_version = plan.generation_version)
         => plan'.generated[s] = plan.generated[s]]_vars

\* C19: when an AI-revise call ends, either current_<kind> holds the new
\* content and exactly one matching record was added, or current_<kind>, the
\* revision table and the revision counters are as they were before the call.
Cex_C19 ==
  [][(req.op = "revise" /\ req'.op = "none") =>
       LET s == req.section
       IN \/ /\ plan'.current[s] = req.content
             /\ AppendedOne
             /\ Appended.section_name = s
             /\ Appended.content = req.content
          \/ /\ ~req.changed
             /\ plan'.current = plan.current
             /\ revisions' = revisions
             /\ plan'.revision_counts = req.counts]_vars

\* ------------------------------------------------- claims: request handling
StoreUnchanged == plan' = plan /\ revisions' = revisions

\* C12: while a manual edit of prevention_strategies with 2 or 4 entries is
\* handled, current_<kind>, the revision table and the revision counters stay
\* as they are.
Cex_C12 ==
  [][(/\ req.isManualEdit
      /\ req.section = "prevention_strategies"
      /\ StrategyCount(req.content) \in {2, 4})
       => /\ plan'.current = plan.current
          /\ revisions' = revisions
          /\ plan'.revision_counts = plan.revision_counts]_vars

\* C13: a non-empty current_prevention_strategies has exactly 3 entries.
Cex_C13 ==
  plan.current["prevention_strategies"] # NoContent
    => StrategyCount(plan.current["prevention_strategies"]) = 3

\* C16: a restore whose steps all succeed sets current_<kind> of the
\* revision's section to the revision's content and appends one record with
\* that content, a feedback naming the restored revision's number and the
\* plan's generation version; a restore request naming no revision of the
\* plan is rejected and changes nothing.
Thm_C16 ==
  [][/\ RestoreInsert(TRUE) =>
          LET restored == revisions[req.revisionId]
              s == restored.section_name
          IN /\ plan'.current[s] = restored.content
             /\ AppendedOne
             /\ Appended.section_name = s
             /\ Appended.content = restored.content
             /\ Appended.feedback_given = RestoreFeedback(restored.revision_number)
             /\ Appended.generation_version = plan.generation_version
             /\ Appended.is_manual_edit = FALSE
     /\ (/\ req.op = "post_restore"
         /\ \/ req.planId # ThePlan
            \/ req.revisionId \notin 1..Len(revisions))
          => /\ StoreUnchanged
             /\ req'.op = "none" /\ req'.status \in {400, 404}]_vars

\* the first of two revisions restored: the third record names version 1
Wit_C16 ==
  /\ Idle /\ Len(revisions) = 3
  /\ revisions[3].feedback_given = RestoreFeedback(1)
  /\ revisions[3].content = revisions[1].content
  /\ revisions[3].revision_number = 3
  /\ plan.current[revisions[1].section_name] = revisions[1].content
  /\ plan.current[revisions[1].section_name] # revisions[2].content

\* a body that misses a required field, names a section that is not
\* editable, or asks for an AI revision without feedback
Malformed(r) ==
  \/ r.planId = "null" \/ r.section = NoSection \/ r.content = NoContent
  \/ r.section \notin EditableSections
  \/ ~r.isManualEdit /\ r.feedback.text = "null"

\* C20: a malformed revise-section request is answered with an error and
\* leaves the plan record and the revision table unchanged.
Thm_C20 ==
  [][(req.op = "post_revise" /\ Malformed(req))
       => /\ StoreUnchanged
          /\ req'.op = "none" /\ req'.status \in {400, 404}]_vars

\* an AI revision of an editable section of the plan, with content and
\* without feedback, answered 400
Wit_C20 ==
  /\ req.status = 400
  /\ req.planId = ThePlan /\ req.section \in EditableSections
  /\ req.content # NoContent
  /\ ~req.isManualEdit /\ req.feedback.text = "null"

\* ------------------------------------------------ claims: the coherence check
\* C21: in every answer built from an oracle output, the entry of the
\* just-revised section is coherent, and hasIssues is true exactly when the
\* oracle reported another section not coherent.
Thm_C21 ==
  (client.check.pc \in {"answered", "done"} /\ client.check.coherenceCheck.present)
    => LET c == client.check
           revised == StripCurrent(c.revisedSection)
       IN /\ c.coherenceCheck.coherent[revised] = TRUE
          /\ c.hasIssues <=> (\E s \in EditableSections \ {revised} : ~c.output[s])
          /\ \A s \in EditableSections \ {revised} :
               c.coherenceCheck.coherent[s] = c.output[s]

\* the oracle called only the just-revised section incoherent
Wit_C21 ==
  /\ client.check.pc = "answered" /\ client.check.coherenceCheck.present
  /\ ~client.check.output[StripCurrent(client.check.revisedSection)]
  /\ ~client.check.hasIssues
  /\ client.check.revisedSection \notin EditableSections

\* C22: a failed oracle call is answered with status 200 and hasIssues false
\* after a single call, and the editor then shows no banner and no error.
Thm_C22 ==
  [][/\ (client.check.pc = "sent" /\ client'.check.pc = "answered"
           /\ ~client'.check.coherenceCheck.present)
          => /\ client'.check.status = 200
             /\ ~client'.check.hasIssues
             /\ client'.check.calls = 1
     /\ (client.check.pc = "answered" /\ ~client.check.coherenceCheck.present
           /\ client'.check.pc = "done")
          => /\ ~client'.showCoherenceWarning
             /\ ~client'.coherenceIssues.present
             /\ ~client'.generationError
             /\ client'.check.calls = 1]_vars

\* a failed check handled by the editor
Wit_C22 ==
  /\ client.check.pc = "done"
  /\ ~client.check.coherenceCheck.present
  /\ client.check.status = 200 /\ client.check.calls = 1
  /\ ~client.showCoherenceWarning

\* C23: whatever the state of the coherence check, finalize is enabled on a
\* plan with content, and a finalize the store accepts sets status complete.
Thm_C23 ==
  /\ []((Idle /\ client.mounted /\ client.hasContent) => ENABLED Finalize(TRUE))
  /\ [][Finalize(TRUE) => plan'.status = "complete"]_vars

\* finalized under a banner, and finalized with the check still in flight
Wit_C23 ==
  /\ plan.status = "complete"
  /\ \/ client.showCoherenceWarning /\ client.check.pc = "done" /\ client.check.hasIssues
     \/ client.check.pc = "sent"

\* ------------------------------------------------- claims: the review state
\* C24: the stored reviewed set never loses a section except when a
\* regeneration empties it, and every regeneration empties it.
Thm_C24 ==
  [][IF req.op = "generate" /\ req.pc = "update" /\ plan' # plan
     THEN plan'.sections_reviewed = {}
     ELSE plan.sections_reviewed \subseteq plan'.sections_reviewed]_vars

\* a section reviewed and then operated on twice more, still reviewed; and a
\* plan regenerated after a review
Wit_C24 ==
  /\ Idle
  /\ \E s \in plan.sections_reviewed : audit.opsDone[s] >= 2
  /\ Len(revisions) >= 2

\* the first section after the given one, in the canonical order, that is not
\* in the reviewed list
NextUnreviewed(selected, reviewed) ==
  LET currentIndex == CHOOSE i \in 1..Len(editableSections) : editableSections[i] = selected
      later == {i \in (currentIndex + 1)..Len(editableSections) : editableSections[i] \notin reviewed}
  IN IF later = {} THEN NoSection
     ELSE editableSections[CHOOSE i \in later : \A j \in later : i <= j]

\* C25: keep-as-is and a successful AI-revise move the selection to the next
\* section not yet reviewed, or to no section when there is none.
Cex_C25 ==
  [][/\ KeepAsIs =>
          client'.selectedSection =
            NextUnreviewed(client.selectedSection, client'.sectionsReviewed)
     /\ (\E ok \in BOOLEAN : ReviseInsert(ok)) =>
          client'.selectedSection = NextUnreviewed(req.section, client'.sectionsReviewed)]_vars

Cex_C27 ==
  /\ (entry.pc = "left" /\ entry.inflight = {}) => entry.stored = responses
  /\ entry.continued.set => entry.stored = entry.continued.value

\* C28: a response set holding a value outside the enumeration is not scored.
Cex_C28 ==
  (\E q \in 1..NumQuestions : responses[q] \notin ResponseValue \cup {Unanswered})
    => pcScore # "scored"

\* C30: after a successful Continue on the results step, determined_function
\* is one of the four categories.
Cex_C30 ==
  results.pc = "done" => assessment.determined_function \in BehaviorFunction

\* C29: whatever the interleaving of concurrent calls on a section, the
\* revision numbers of the section within a generation version strictly
\* increase in the order the records were appended, so no two are equal.
Cex_C29 ==
  \A i, j \in 1..Len(revisions) :
    (/\ i < j
     /\ revisions[i].section_name = revisions[j].section_name
     /\ revisions[i].generation_version = revisions[j].generation_version)
      => revisions[i].revision_number < revisions[j].revision_number

====
